---- MODULE Spec2Model ----
(***************************************************************************)
(* A model of src/index.js: the Whisper rate gate and retry loop           *)
(* (waitForTranscribeSlot, transcribeAudio) and the extraction pipeline    *)
(* (parseFrenchDatePhrase, extractByAnchors, the fallback lookups,         *)
(* llmAnchorsParse, buildAudioPayload, handleAudioSmart), and the          *)
(* 'message' handler that calls them.                                      *)
(*                                                                         *)
(* JavaScript runs one callback at a time: the code between two awaits is  *)
(* one atomic step, and an await is a point where other callbacks run.     *)
(* Every action below is one such step.                                    *)
(*                                                                         *)
(* Text is a sequence of one-character strings.  The accented letters are  *)
(* written as ASCII atoms (EAcute is U+00E9, and so on).                   *)
(***************************************************************************)
EXTENDS Integers, Sequences, FiniteSets, Bags, TLC

VARIABLES
    now,                 \* Date.now(), in ms
    LAST_TRANSCRIBE_AT,  \* index.js:73
    inv,                 \* the transcribeAudio invocations made so far (a bag of records)
    rejected,            \* history: service calls rejected so far, all invocations
    firstGrantAt,        \* history: the first value assigned to LAST_TRANSCRIBE_AT
    prevGrantAt,         \* history: LAST_TRANSCRIBE_AT before its latest assignment
    USE_LLM_ANCHORS,     \* index.js:27
    hpc,                 \* where handleAudioSmart is: "idle", "llm" (awaiting the chat
                         \* model, index.js:353), "router" (awaiting the router,
                         \* index.js:371), "done"
    transcript,          \* its argument text
    chat,                \* what the chat model answered, index.js:289 (Null: not asked)
    llm,                 \* its local llm, index.js:353
    anchored,            \* the local anchored of buildAudioPayload, index.js:330
    payload,             \* its local payload, index.js:350
    consulted,           \* history: the extractors called for this transcript, in order
    posts,               \* history: axios.post calls made for this transcript
    reply,               \* the string it returned ("none": none yet)
    arg,                 \* a call of one function on its own: the function and its arguments
    out,                 \* what that call returned: [done |-> FALSE] before it returns
    processedMsgIds,     \* index.js:386
    handlers             \* the 'message' callbacks started so far, in order of arrival

(* An invocation of transcribeAudio is a record:                            *)
(*   pc       where it is suspended: "slot_sleep" (index.js:77), "slot_held" *)
(*            (holding a slot, about to call the service, index.js:86),      *)
(*            "service" (awaiting the service), "backoff" (index.js:102),    *)
(*            or ended: "returned", "thrown"                                 *)
(*   attempt  index.js:82                                                    *)
(*   wakeAt   expiry of its pending setTimeout (0: none)                     *)
(*   result   the string it returned                                         *)
(*   caught   the error bound by catch (e), index.js:96                      *)
(*   enteredAt  const now of its pending waitForTranscribeSlot call,         *)
(*            index.js:75, kept until the service call goes out (0: none)    *)
(*   res      the answer bound to const res, index.js:86 (Null: none yet)    *)
(*   backoff  const backoff, index.js:100 (0: outside the retry branch)      *)
(*   startedAt  history: Date.now() when transcribeAudio was called          *)
(*   slept    history: the sum of the backoff delays it has slept through    *)
(*   slots    history: waitForTranscribeSlot calls it completed              *)
(*   calls    history: openai.audio.transcriptions.create calls it made      *)

NoTime == 0 - 1    \* firstGrantAt, prevGrantAt: no such assignment yet

Null == [null |-> TRUE]    \* the JavaScript null, where an object is expected

gateVars == <<now, LAST_TRANSCRIBE_AT, inv, rejected, firstGrantAt, prevGrantAt>>
audioVars == <<USE_LLM_ANCHORS, hpc, transcript, chat, llm, anchored, payload, consulted, posts, reply>>
calcVars == <<arg, out>>
handlerVars == <<processedMsgIds, handlers>>
vars == <<gateVars, audioVars, calcVars, handlerVars>>

-----------------------------------------------------------------------------
(* Bounds of the model *)

NumCallers == 3     \* concurrent transcribeAudio invocations
MaxTicks == 1       \* 1 ms clock steps taken besides the jumps to timer expiries
MaxEvents == 5      \* transcribeAudio invocations plus rejected service calls
MaxMessages == 2    \* 'message' events delivered
MaxAttempt == 6     \* the attempt numbers the backoff formula is computed at, on its own
StartTime == 5000   \* Date.now() when the first message arrives

(* Program constants *)

API_MIN_INTERVAL == 1200    \* index.js:19,28 (default of API_MIN_INTERVAL_MS)
MAX_RETRIES == 3            \* index.js:20,29 (default of API_MAX_RETRIES)
BACKOFF_BASE == 2000        \* index.js:100
BACKOFF_CAP == 8000         \* index.js:100
JITTER_SPAN == 300          \* index.js:100
HTTP_TOO_MANY == 429        \* index.js:98

-----------------------------------------------------------------------------
(* Characters and strings *)

EAcute == "e_acute"     \* U+00E9
UCirc == "u_circ"       \* U+00FB
EAcuteUp == "E_acute"   \* U+00C9

UpperLetters == <<"A","B","C","D","E","F","G","H","I","J","K","L","M",
                  "N","O","P","Q","R","S","T","U","V","W","X","Y","Z">>
LowerLetters == <<"a","b","c","d","e","f","g","h","i","j","k","l","m",
                  "n","o","p","q","r","s","t","u","v","w","x","y","z">>
Digits == <<"0","1","2","3","4","5","6","7","8","9">>

Range(f) == {f[i] : i \in DOMAIN f}

\* String.prototype.toLowerCase, one character
LowerChar(c) ==
    IF c = EAcuteUp THEN EAcute
    ELSE IF c \in Range(UpperLetters)
         THEN LowerLetters[CHOOSE i \in DOMAIN UpperLetters : UpperLetters[i] = c]
         ELSE c

\* String.prototype.toLowerCase
ToLowerCase(s) == [i \in DOMAIN s |-> LowerChar(s[i])]

IsDigit(c) == c \in Range(Digits)                       \* \d
IsWordChar(c) ==                                        \* \w (no u flag: ASCII only)
    c \in Range(UpperLetters) \cup Range(LowerLetters) \cup Range(Digits) \cup {"_"}
IsSpace(c) == c \in {" ", "\t"}                         \* \s

\* s.substring(i-1, j-1): the characters at 1-based positions i .. j-1
Sub(s, i, j) == SubSeq(s, i, j - 1)

\* lit occurs in s at position i
LitAt(s, i, lit) ==
    /\ i + Len(lit) - 1 <= Len(s)
    /\ \A k \in 1..Len(lit) : s[i + k - 1] = lit[k]

\* String.prototype.includes
Includes(s, lit) == \E i \in 1..(Len(s) + 1) : LitAt(s, i, lit)

\* String.prototype.startsWith
StartsWith(s, lit) == LitAt(s, 1, lit)

\* the least element of a set of numbers
Least(S) == CHOOSE x \in S : \A k \in S : x <= k

\* String.prototype.trim
Trim(s) ==
    LET Between(inked) ==
            IF inked = {} THEN <<>>
            ELSE SubSeq(s, Least(inked), Least({i \in inked : \A k \in inked : k <= i}))
    IN  Between({i \in DOMAIN s : ~IsSpace(s[i])})

Min(a, b) == IF a <= b THEN a ELSE b                    \* Math.min

RECURSIVE Pow2(_)
Pow2(n) == IF n = 0 THEN 1 ELSE 2 * Pow2(n - 1)         \* Math.pow(2, n)

-----------------------------------------------------------------------------
(* The transcription service's answers *)

NoStatus == 0               \* e.status / e.response.status absent (falsy)
NoError == [status |-> -1, respStatus |-> -1, message |-> <<>>]    \* no error caught

\* res of a successful call: res.text may be absent
ServiceResponses ==
    { [hasText |-> FALSE, text |-> <<>>] } \cup
    { [hasText |-> TRUE, text |-> t] : t \in {<<>>, <<" ">>, <<" ","o","k"," ">>} }

\* what a failed call rejects with: e.status, e.response.status, e.message
ServiceErrors ==
    { [status |-> HTTP_TOO_MANY, respStatus |-> NoStatus, message |-> <<"b","o","o","m">>],
      [status |-> NoStatus, respStatus |-> HTTP_TOO_MANY, message |-> <<>>],
      [status |-> 500, respStatus |-> NoStatus, message |-> <<"R","a","t","e"," ","l","i","m","i","t">>],
      [status |-> NoStatus, respStatus |-> NoStatus, message |-> <<"q","u","o","t","a","!">>],
      [status |-> NoStatus, respStatus |-> 401, message |-> <<"b","o","o","m">>] }

\* index.js:97  e?.status || e?.response?.status
ErrorStatus(e) == IF e.status # NoStatus THEN e.status ELSE e.respStatus

\* index.js:98  status === 429 || /rate|quota/i.test(e?.message || '')
Is429(e) ==
    \/ ErrorStatus(e) = HTTP_TOO_MANY
    \/ Includes(ToLowerCase(e.message), <<"r","a","t","e">>)
    \/ Includes(ToLowerCase(e.message), <<"q","u","o","t","a">>)

\* a variant without the cap
Backoff_Uncapped(a, jitter) == BACKOFF_BASE * Pow2(a) + jitter

\* index.js:100  Math.min(2000 * Math.pow(2, attempt), 8000) + Math.floor(Math.random() * 300)
Backoff(a, jitter) == Min(BACKOFF_BASE * Pow2(a), BACKOFF_CAP) + jitter

\* the values Math.floor(Math.random() * 300) is sampled at
Jitters == {0, JITTER_SPAN - 1}

\* index.js:95  res.text?.trim() || ''
TranscriptOf(res) == IF res.hasText THEN Trim(res.text) ELSE <<>>

-----------------------------------------------------------------------------
(* waitForTranscribeSlot and transcribeAudio, index.js:73-111.             *)
(* Each operator gives the effect of a stretch of code run by invocation r *)
(* up to its next await or its end: [me |-> r afterwards, last |-> the     *)
(* value of LAST_TRANSCRIBE_AT afterwards].                                *)

Invocations == BagToSet(inv)

NewInvocation ==
    [pc |-> "new", attempt |-> 0, wakeAt |-> 0, result |-> <<>>, caught |-> NoError,
     enteredAt |-> 0, res |-> Null, backoff |-> 0, startedAt |-> now, slept |-> 0, slots |-> 0, calls |-> 0]

\* mutant of GrantSlot: the slot is stamped with the time of the request
GrantSlot_AtRequestTime(r) ==
    [me |-> [r EXCEPT !.pc = "slot_held", !.slots = @ + 1, !.wakeAt = 0],
     last |-> r.enteredAt]

\* index.js:78  LAST_TRANSCRIBE_AT = Date.now(), and the return to transcribeAudio
GrantSlot(r) ==
    [me |-> [r EXCEPT !.pc = "slot_held", !.slots = @ + 1, !.wakeAt = 0],
     last |-> now]

\* index.js:75-78  up to the first await
waitForTranscribeSlot(r) ==
    LET elapsed == now - LAST_TRANSCRIBE_AT
    IN  IF elapsed < API_MIN_INTERVAL
        THEN [me |-> [r EXCEPT !.pc = "slot_sleep", !.enteredAt = now,
                               !.wakeAt = now + (API_MIN_INTERVAL - elapsed)],
              last |-> LAST_TRANSCRIBE_AT]
        ELSE GrantSlot([r EXCEPT !.enteredAt = now])

\* index.js:95, 107, 110  return <string>
Return(r, text) ==
    [me |-> [r EXCEPT !.pc = "returned", !.result = text, !.wakeAt = 0],
     last |-> LAST_TRANSCRIBE_AT]

\* an exception leaving transcribeAudio
Throw(r) ==
    [me |-> [r EXCEPT !.pc = "thrown", !.wakeAt = 0], last |-> LAST_TRANSCRIBE_AT]

\* mutant of LoopTop: a retry calls the service without asking the gate for a slot
LoopTop_RetrySkipsGate(r, a) ==
    IF a = 0
    THEN waitForTranscribeSlot([r EXCEPT !.attempt = a])
    ELSE [me |-> [r EXCEPT !.attempt = a, !.pc = "slot_held"],
          last |-> LAST_TRANSCRIBE_AT]

\* index.js:83-85  the while test with attempt = a, then the loop body up to its first await
LoopTop(r, a) ==
    IF a <= MAX_RETRIES
    THEN waitForTranscribeSlot([r EXCEPT !.attempt = a])
    ELSE Return([r EXCEPT !.attempt = a], <<>>)

\* mutant of ShouldRetry: every failure is retried
ShouldRetry_AnyError(e, a) == a < MAX_RETRIES

\* index.js:99  is429 && attempt < MAX_RETRIES
ShouldRetry(e, a) == Is429(e) /\ a < MAX_RETRIES

\* mutant of Catch: the retry follows at once, the backoff is computed but not slept
Catch_NoSleep(r, e, jitter) ==
    IF ShouldRetry(e, r.attempt)
    THEN [me |-> [r EXCEPT !.pc = "backoff", !.caught = e,
                           !.backoff = Backoff(r.attempt, jitter),
                           !.wakeAt = now],
          last |-> LAST_TRANSCRIBE_AT]
    ELSE Return([r EXCEPT !.caught = e], <<>>)

\* mutant of Catch: the final error is thrown on to the caller
Catch_Rethrows(r, e, jitter) ==
    IF ShouldRetry(e, r.attempt)
    THEN [me |-> [r EXCEPT !.pc = "backoff", !.caught = e,
                           !.backoff = Backoff(r.attempt, jitter),
                           !.wakeAt = now + Backoff(r.attempt, jitter)],
          last |-> LAST_TRANSCRIBE_AT]
    ELSE Throw([r EXCEPT !.caught = e])

\* index.js:96-108  the catch block up to its await or return
Catch(r, e, jitter) ==
    IF ShouldRetry(e, r.attempt)
    THEN [me |-> [r EXCEPT !.pc = "backoff", !.caught = e,
                           !.backoff = Backoff(r.attempt, jitter),
                           !.wakeAt = now + Backoff(r.attempt, jitter)],
          last |-> LAST_TRANSCRIBE_AT]
    ELSE Return([r EXCEPT !.caught = e], <<>>)

\* mutant of NextAttempt: the retry counter is not incremented
NextAttempt_Forgotten(a) == a

\* index.js:103  attempt++
NextAttempt(a) == a + 1

\* index.js:102-104  after the backoff sleep: attempt++; continue
Continue(r) ==
    LoopTop([r EXCEPT !.caught = NoError, !.wakeAt = 0, !.backoff = 0,
                      !.slept = @ + r.backoff],
            NextAttempt(r.attempt))

\* invocation r becomes eff.me, LAST_TRANSCRIBE_AT becomes eff.last
Commit(r, eff) ==
    /\ inv' = (inv (-) SetToBag({r})) (+) SetToBag({eff.me})
    /\ LAST_TRANSCRIBE_AT' = eff.last
    /\ IF eff.me.slots > r.slots
       THEN /\ prevGrantAt' = (IF firstGrantAt = NoTime THEN NoTime ELSE LAST_TRANSCRIBE_AT)
            /\ firstGrantAt' = (IF firstGrantAt = NoTime THEN eff.last ELSE firstGrantAt)
       ELSE UNCHANGED <<firstGrantAt, prevGrantAt>>

Started == BagCardinality(inv)

\* index.js:81-85  a message handler calls transcribeAudio
Start ==
    /\ Started < NumCallers
    /\ Started + rejected < MaxEvents
    /\ LET eff == LoopTop(NewInvocation, 0)
       IN  /\ inv' = inv (+) SetToBag({eff.me})
           /\ LAST_TRANSCRIBE_AT' = eff.last
           /\ IF eff.me.slots > 0
              THEN /\ prevGrantAt' = (IF firstGrantAt = NoTime THEN NoTime
                                      ELSE LAST_TRANSCRIBE_AT)
                   /\ firstGrantAt' = (IF firstGrantAt = NoTime THEN eff.last
                                       ELSE firstGrantAt)
              ELSE UNCHANGED <<firstGrantAt, prevGrantAt>>
    /\ UNCHANGED <<now, rejected, audioVars, calcVars, handlerVars>>

\* index.js:77-78  the sleep of waitForTranscribeSlot is over
SlotWake(r) ==
    /\ r.pc = "slot_sleep"
    /\ now >= r.wakeAt
    /\ Commit(r, GrantSlot(r))
    /\ UNCHANGED <<now, rejected, audioVars, calcVars, handlerVars>>

\* index.js:86  the request to the transcription service goes out
CallService(r) ==
    /\ r.pc = "slot_held"
    /\ Commit(r, [me |-> [r EXCEPT !.pc = "service", !.calls = @ + 1, !.enteredAt = 0],
                  last |-> LAST_TRANSCRIBE_AT])
    /\ UNCHANGED <<now, rejected, audioVars, calcVars, handlerVars>>

\* index.js:86-95  the service answers
ServiceOk(r) ==
    /\ r.pc = "service"
    /\ \E res \in ServiceResponses :
          Commit(r, Return([r EXCEPT !.res = res], TranscriptOf(res)))
    /\ UNCHANGED <<now, rejected, audioVars, calcVars, handlerVars>>

\* index.js:86, 96-108  the service call rejects
ServiceError(r) ==
    /\ r.pc = "service"
    /\ Started + rejected < MaxEvents
    /\ rejected' = rejected + 1
    /\ \E e \in ServiceErrors, j \in Jitters : Commit(r, Catch(r, e, j))
    /\ UNCHANGED <<now, audioVars, calcVars, handlerVars>>

\* index.js:102-104  the backoff sleep is over
BackoffWake(r) ==
    /\ r.pc = "backoff"
    /\ now >= r.wakeAt
    /\ Commit(r, Continue(r))
    /\ UNCHANGED <<now, rejected, audioVars, calcVars, handlerVars>>

Sleeping(r) == r.pc \in {"slot_sleep", "backoff"}

\* the clock moves by 1 ms
Tick ==
    /\ now < StartTime + MaxTicks
    /\ now' = now + 1
    /\ UNCHANGED <<LAST_TRANSCRIBE_AT, inv, rejected, firstGrantAt, prevGrantAt, audioVars, calcVars, handlerVars>>

\* the clock moves to the next timer expiry; an expired timer fires first
Advance ==
    /\ \E r \in Invocations : Sleeping(r)
    /\ \A r \in Invocations : Sleeping(r) => r.wakeAt > now
    /\ now' = CHOOSE t \in {r.wakeAt : r \in {q \in Invocations : Sleeping(q)}} :
                  \A r \in Invocations : Sleeping(r) => t <= r.wakeAt
    /\ UNCHANGED <<LAST_TRANSCRIBE_AT, inv, rejected, firstGrantAt, prevGrantAt, audioVars, calcVars, handlerVars>>

\* index.js:73  no transcription asked for yet
GateInit ==
    /\ now = StartTime
    /\ LAST_TRANSCRIBE_AT = 0
    /\ inv = EmptyBag
    /\ rejected = 0
    /\ firstGrantAt = NoTime
    /\ prevGrantAt = NoTime

\* index.js:21,27  the flag at its default, no transcript handled yet
AudioIdle ==
    /\ USE_LLM_ANCHORS = FALSE
    /\ hpc = "idle" /\ transcript = <<>> /\ chat = Null /\ llm = Null
    /\ anchored = Null /\ payload = Null
    /\ consulted = <<>> /\ posts = 0 /\ reply = "none"

\* no function is called on its own
CalcIdle == arg = Null /\ out = [done |-> FALSE]

Init == GateInit /\ AudioIdle /\ CalcIdle /\ processedMsgIds = {} /\ handlers = <<>>

\* what the service and the timers do once a request or a sleep is pending
Progress ==
    \/ \E r \in Invocations : SlotWake(r)
    \/ \E r \in Invocations : CallService(r)
    \/ \E r \in Invocations : ServiceOk(r)
    \/ \E r \in Invocations : BackoffWake(r)
    \/ Advance

Next ==
    \/ Start
    \/ \E r \in Invocations : SlotWake(r)
    \/ \E r \in Invocations : CallService(r)
    \/ \E r \in Invocations : ServiceOk(r)
    \/ \E r \in Invocations : ServiceError(r)
    \/ \E r \in Invocations : BackoffWake(r)
    \/ Tick
    \/ Advance

\* every service call and every sleep returns
Spec == Init /\ [][Next]_vars /\ WF_vars(Progress)

-----------------------------------------------------------------------------
(* Claims about the rate gate and the retry loop *)

RECURSIVE SlotsOf(_)
SlotsOf(rs) ==
    IF rs = {} THEN 0
    ELSE LET r == CHOOSE q \in rs : TRUE
         IN  r.slots * CopiesIn(r, inv) + SlotsOf(rs \ {r})

\* the number of slot grants so far
Grants == SlotsOf(Invocations)

\* C1: any two slot grants (assignments of LAST_TRANSCRIBE_AT) are at least
\* API_MIN_INTERVAL apart, also when the requests overlap, so N grants span at
\* least (N-1) * API_MIN_INTERVAL.
C1_GrantsSpaced ==
    /\ prevGrantAt # NoTime => LAST_TRANSCRIBE_AT - prevGrantAt >= API_MIN_INTERVAL
    /\ firstGrantAt # NoTime =>
           LAST_TRANSCRIBE_AT - firstGrantAt >= (Grants - 1) * API_MIN_INTERVAL

\* C3: one invocation of transcribeAudio makes at most MAX_RETRIES + 1 service
\* calls, and every invocation ends with a returned result, given that every
\* service call and every sleep returns.
C3_BoundedCallsAndTermination ==
    /\ [](\A r \in Invocations : r.calls <= MAX_RETRIES + 1)
    /\ []<>(\A r \in Invocations : r.pc = "returned")

C3_Witness ==
    \E r \in Invocations : r.calls = MAX_RETRIES + 1 /\ r.pc = "returned"

\* C4: a failure that is neither status 429 nor a rate|quota message ends the
\* invocation at once with the empty transcript, at any attempt number: no
\* backoff and no further call follows it.
C4_OtherFailureIsFinal ==
    \A r \in Invocations :
        (/\ r.caught # NoError
         /\ ErrorStatus(r.caught) # HTTP_TOO_MANY
         /\ ~Includes(ToLowerCase(r.caught.message), <<"r","a","t","e">>)
         /\ ~Includes(ToLowerCase(r.caught.message), <<"q","u","o","t","a">>))
        => (r.pc = "returned" /\ r.result = <<>>)

C4_Witness ==
    \E r \in Invocations :
        /\ r.caught # NoError /\ ~Is429(r.caught)
        /\ r.attempt >= 1 /\ r.calls = r.attempt + 1
        /\ r.pc = "returned" /\ r.result = <<>>

\* C5: no exception leaves transcribeAudio, every exit is a returned string, and
\* an invocation whose every attempt was rejected as rate/quota returns the
\* empty transcript after the last allowed attempt.
C5_ExhaustionReturnsEmpty ==
    \A r \in Invocations :
        /\ r.pc # "thrown"
        /\ r.pc = "returned" => r.result \in Seq(STRING)
        /\ (r.attempt = MAX_RETRIES /\ r.caught # NoError)
               => (r.pc = "returned" /\ r.result = <<>>)

C5_Witness ==
    \E r \in Invocations :
        /\ r.attempt = MAX_RETRIES /\ r.calls = MAX_RETRIES + 1
        /\ Is429(r.caught)
        /\ r.pc = "returned" /\ r.result = <<>>

\* C6: every service call, first attempt and retry alike, comes right after a
\* slot acquisition of its own: the slots an invocation acquired are the calls
\* it made, plus the one it holds when it is about to call.
C6_OneSlotPerCall ==
    \A r \in Invocations :
        r.slots = r.calls + (IF r.pc = "slot_held" THEN 1 ELSE 0)

C6_Witness ==
    \E r \in Invocations : r.pc = "service" /\ r.calls >= 2 /\ r.slots = r.calls

RECURSIVE BackoffFloor(_)
\* the sum of the jitter-free backoff delays before attempts 1 .. k
BackoffFloor(k) ==
    IF k = 0 THEN 0 ELSE BackoffFloor(k - 1) + Min(BACKOFF_BASE * Pow2(k - 1), BACKOFF_CAP)

\* C11: an invocation whose first k calls were rejected as rate/quota and whose
\* next call succeeds with a non-empty text returns that text, trimmed, and by
\* then at least the sum of the k backoff delays has passed since it started.
C11_RetriedThenTranscribed ==
    \A r \in Invocations :
        /\ r.slept >= BackoffFloor(r.attempt)
        /\ now - r.startedAt >= r.slept
        /\ (r.pc = "returned" /\ r.res # Null /\ r.res.hasText /\ Trim(r.res.text) # <<>>)
               => (r.result = Trim(r.res.text) /\ r.result # <<>>)

\* two rejections, two backoffs, then a transcript
C11_Witness ==
    \E r \in Invocations :
        /\ r.pc = "returned" /\ r.attempt = 2 /\ r.calls = 3
        /\ r.result = <<"o","k">>
        /\ r.slept >= BackoffFloor(2)

\* C16: slots are granted in request order: while a caller that entered
\* waitForTranscribeSlot earlier is still waiting, no caller that entered later
\* has been granted its slot.
C16_GrantsInRequestOrder ==
    \A a, b \in Invocations :
        (a.pc = "slot_sleep" /\ b.pc = "slot_held") => ~(a.enteredAt < b.enteredAt)

\* invocation r has just entered waitForTranscribeSlot and was suspended
EntersAndWaits(r) ==
    /\ r \in Invocations' \ Invocations
    /\ r.pc = "slot_sleep"

\* invocation r has just entered waitForTranscribeSlot and was granted at once
EntersAndPasses(r) ==
    /\ r \in Invocations' \ Invocations
    /\ r.pc = "slot_held"
    /\ \A q \in Invocations : q.pc = "slot_sleep" => GrantSlot(q).me # r

\* C17: LAST_TRANSCRIBE_AT never decreases; a grant sets it to the clock value
\* at the grant, after any suspension, not to the time of the request; a caller
\* is suspended only when API_MIN_INTERVAL - (now - LAST_TRANSCRIBE_AT) at its
\* request is positive, and then for exactly that long.
C17_GrantStampsGrantTime ==
    [][ /\ LAST_TRANSCRIBE_AT' >= LAST_TRANSCRIBE_AT
        /\ Grants' > Grants => LAST_TRANSCRIBE_AT' = now'
        /\ LAST_TRANSCRIBE_AT' # LAST_TRANSCRIBE_AT => Grants' > Grants
        /\ \A r \in Invocations' :
              /\ EntersAndWaits(r) =>
                    /\ r.enteredAt = now
                    /\ API_MIN_INTERVAL - (now - LAST_TRANSCRIBE_AT) > 0
                    /\ r.wakeAt - r.enteredAt = API_MIN_INTERVAL - (now - LAST_TRANSCRIBE_AT)
                    /\ LAST_TRANSCRIBE_AT' = LAST_TRANSCRIBE_AT
              /\ EntersAndPasses(r) =>
                    /\ r.enteredAt = now
                    /\ API_MIN_INTERVAL - (now - LAST_TRANSCRIBE_AT) <= 0
        /\ \A q \in Invocations :
              (q.pc = "slot_sleep" /\ GrantSlot(q).me \in Invocations' \ Invocations) =>
                    /\ now >= q.wakeAt
                    /\ LAST_TRANSCRIBE_AT' = now
      ]_vars

\* a caller that was suspended holds its slot: LAST_TRANSCRIBE_AT is the time of
\* the grant, later than its request
C17_Witness ==
    \E r \in Invocations :
        /\ r.pc = "slot_held" /\ r.attempt >= 1
        /\ r.enteredAt < now
        /\ LAST_TRANSCRIBE_AT = now

-----------------------------------------------------------------------------
(* Dates: normKeepAccents, pad2, FR_MONTHS, parseFrenchDatePhrase,          *)
(* index.js:131-165.  A regular expression is modelled by an operator that *)
(* gives the match the JavaScript engine finds: the leftmost start, and at *)
(* that start the first alternative and repetition count in the engine's   *)
(* order (greedy: longest first, lazy: shortest first) for which the rest  *)
(* of the pattern matches.                                                 *)

NullStr == <<>>         \* null where a string is expected; as '' it is falsy, and callers only test that
Undefined == 0 - 1      \* undefined where a number is expected
NaN == 0 - 2            \* NaN

\* 1-based position i is a \b: word character on exactly one side
WordBoundary(s, i) ==
    (i > 1 /\ i - 1 <= Len(s) /\ IsWordChar(s[i - 1])) # (i >= 1 /\ i <= Len(s) /\ IsWordChar(s[i]))

\* lit occurs in s at position i, ignoring case (the i flag)
LitAtCI(s, i, lit) ==
    /\ i + Len(lit) - 1 <= Len(s)
    /\ \A k \in 1..Len(lit) : LowerChar(s[i + k - 1]) = lit[k]

RECURSIVE SpaceRun(_, _)
\* the length of the run of \s at i
SpaceRun(s, i) == IF i <= Len(s) /\ IsSpace(s[i]) THEN 1 + SpaceRun(s, i + 1) ELSE 0

\* the position after the run of \s at i
AfterSpaces(s, i) == i + SpaceRun(s, i)

RECURSIVE DigitRun(_, _)
\* the length of the run of \d at i
DigitRun(s, i) == IF i <= Len(s) /\ IsDigit(s[i]) THEN 1 + DigitRun(s, i + 1) ELSE 0

\* [a-zéûôîùàâç] under the i flag
IsMonthLetter(c) ==
    LowerChar(c) \in Range(LowerLetters) \cup
        {EAcute, UCirc, "o_circ", "i_circ", "u_grave", "a_grave", "a_circ", "c_cedil"}

RECURSIVE MonthLetterRun(_, _)
MonthLetterRun(s, i) ==
    IF i <= Len(s) /\ IsMonthLetter(s[i]) THEN 1 + MonthLetterRun(s, i + 1) ELSE 0

\* \d{n} at i
AllDigits(s, i, n) == i + n - 1 <= Len(s) /\ \A k \in i..(i + n - 1) : IsDigit(s[k])

RECURSIVE CollapseSpaces(_, _)
\* .replace(/\s+/g, ' '), from position i on
CollapseSpaces(s, i) ==
    IF i > Len(s) THEN <<>>
    ELSE IF IsSpace(s[i])
         THEN IF i > 1 /\ IsSpace(s[i - 1])
              THEN CollapseSpaces(s, i + 1)
              ELSE <<" ">> \o CollapseSpaces(s, i + 1)
         ELSE <<s[i]>> \o CollapseSpaces(s, i + 1)

\* index.js:132  (NFKC leaves every character of the model as it is)
normKeepAccents(s) == Trim(CollapseSpaces(ToLowerCase(s), 1))

RECURSIVE DropLe(_, _)
\* index.js:142  .replace(/\sle\s+/g, ' '), from position i on
DropLe(s, i) ==
    IF i > Len(s) THEN <<>>
    ELSE IF IsSpace(s[i]) /\ LitAt(s, i + 1, <<"l","e">>) /\ SpaceRun(s, i + 3) >= 1
         THEN <<" ">> \o DropLe(s, AfterSpaces(s, i + 3))
         ELSE <<s[i]>> \o DropLe(s, i + 1)

RECURSIVE StrToNat(_)
\* the number a string of digits denotes
StrToNat(ds) ==
    IF ds = <<>> THEN 0
    ELSE 10 * StrToNat(SubSeq(ds, 1, Len(ds) - 1))
         + (CHOOSE i \in DOMAIN Digits : Digits[i] = ds[Len(ds)]) - 1

\* parseInt(v, 10) of a string with no leading space or sign
ParseInt(v) ==
    IF DigitRun(v, 1) = 0 THEN NaN ELSE StrToNat(SubSeq(v, 1, DigitRun(v, 1)))

RECURSIVE NatToStr(_)
NatToStr(n) ==
    IF n < 10 THEN <<Digits[n + 1]>>
    ELSE NatToStr(n \div 10) \o <<Digits[(n % 10) + 1]>>

\* String(v), as a template literal does it
NumToStr(v) ==
    IF v = Undefined THEN <<"u","n","d","e","f","i","n","e","d">>
    ELSE IF v = NaN THEN <<"N","a","N">>
    ELSE NatToStr(v)

\* index.js:138  String(n).padStart(2, '0')
pad2(n) ==
    LET PadStart(str) == IF Len(str) < 2 THEN <<"0">> \o str ELSE str
    IN  PadStart(NumToStr(n))

RECURSIVE Split(_, _)
\* String.prototype.split on a one-character separator
Split(s, sep) ==
    LET Cut(p) == <<SubSeq(s, 1, p - 1)>> \o Split(SubSeq(s, p + 1, Len(s)), sep)
    IN  IF \A i \in DOMAIN s : s[i] # sep THEN <<s>>
        ELSE Cut(Least({i \in DOMAIN s : s[i] = sep}))

\* index.js:134-137
FR_MONTHS(w) ==
    CASE w = <<"j","a","n","v","i","e","r">> -> 1
      [] w = <<"f","e","v","r","i","e","r">> -> 2
      [] w = <<"f",EAcute,"v","r","i","e","r">> -> 2
      [] w = <<"m","a","r","s">> -> 3
      [] w = <<"a","v","r","i","l">> -> 4
      [] w = <<"m","a","i">> -> 5
      [] w = <<"j","u","i","n">> -> 6
      [] w = <<"j","u","i","l","l","e","t">> -> 7
      [] w = <<"a","o","u","t">> -> 8
      [] w = <<"a","o",UCirc,"t">> -> 8
      [] w = <<"s","e","p","t","e","m","b","r","e">> -> 9
      [] w = <<"o","c","t","o","b","r","e">> -> 10
      [] w = <<"n","o","v","e","m","b","r","e">> -> 11
      [] w = <<"d","e","c","e","m","b","r","e">> -> 12
      [] w = <<"d",EAcute,"c","e","m","b","r","e">> -> 12
      [] OTHER -> Undefined

\* index.js:145  /^\d{4}-\d{2}-\d{2}$/
IsIsoDate(s) ==
    /\ Len(s) = 10
    /\ AllDigits(s, 1, 4) /\ s[5] = "-" /\ AllDigits(s, 6, 2) /\ s[8] = "-"
    /\ AllDigits(s, 9, 2)

IsDateSep(s, i) == i <= Len(s) /\ s[i] \in {"/", "-"}      \* [\/-]

\* \d{a}[\/-]\d{b}[\/-]\d{c} at i
NumericDateAt(s, i, a, b, c) ==
    /\ AllDigits(s, i, a) /\ IsDateSep(s, i + a)
    /\ AllDigits(s, i + a + 1, b) /\ IsDateSep(s, i + a + 1 + b)
    /\ AllDigits(s, i + a + b + 2, c)

\* index.js:148, 231  /^\d{1,2}[\/-]\d{1,2}[\/-]\d{2,4}$/
IsNumericDate(s) ==
    \E a \in {1, 2}, b \in {1, 2}, c \in {2, 3, 4} :
        NumericDateAt(s, 1, a, b, c) /\ a + b + c + 2 = Len(s)

\* index.js:151, 234  if (y < 100) y += 2000  (false for undefined and NaN)
Century(y) == IF y >= 0 /\ y < 100 THEN y + 2000 ELSE y

\* index.js:152, 235  `${y}-${pad2(m)}-${pad2(d)}`
IsoOf(y, m, d) == NumToStr(y) \o <<"-">> \o pad2(m) \o <<"-">> \o pad2(d)

\* index.js:149-152, 232-235  split on the separator, parseInt, 20YY, template
NumericDateToIso(s) ==
    LET Number(parts, n) == IF Len(parts) >= n THEN ParseInt(parts[n]) ELSE Undefined
        OfParts(parts) ==
            IsoOf(Century(Number(parts, 3)), Number(parts, 2), Number(parts, 1))
    IN  OfParts(Split(s, IF \E i \in DOMAIN s : s[i] = "/" THEN "/" ELSE "-"))

NoTextDate == [found |-> FALSE, day |-> <<>>, month |-> <<>>, year |-> <<>>, all |-> <<>>]

\* (1er|premier|\d{1,2}) at i: the lengths that match, in the order the engine tries them
DayTokenLens(s, i) ==
    (IF LitAtCI(s, i, <<"1","e","r">>) THEN <<3>> ELSE <<>>) \o
    (IF LitAtCI(s, i, <<"p","r","e","m","i","e","r">>) THEN <<7>> ELSE <<>>) \o
    (IF AllDigits(s, i, 2) THEN <<2>> ELSE <<>>) \o
    (IF AllDigits(s, i, 1) THEN <<1>> ELSE <<>>)

\* \s+([a-zéûôîùàâç]+)\s+(\d{4})\b at j: the position after the match, or 0.
\* Each run is taken whole: a shorter one is followed by a character of its own class.
TextDateTail(s, j) ==
    LET Year(k) == IF AllDigits(s, k, 4) /\ WordBoundary(s, k + 4) THEN k + 4 ELSE 0
        Month(m) ==
            IF MonthLetterRun(s, m) >= 1 /\ SpaceRun(s, m + MonthLetterRun(s, m)) >= 1
            THEN Year(AfterSpaces(s, m + MonthLetterRun(s, m)))
            ELSE 0
    IN  IF SpaceRun(s, j) >= 1 THEN Month(AfterSpaces(s, j)) ELSE 0

\* the match of the date pattern that starts at i
TextDateAt(s, i) ==
    LET Month(m) == Sub(s, m, m + MonthLetterRun(s, m))
        Groups(j, e) ==
            [found |-> TRUE, day |-> Sub(s, i, j), month |-> Month(AfterSpaces(s, j)),
             year |-> Sub(s, e - 4, e), all |-> Sub(s, i, e)]
        From(j) == Groups(j, TextDateTail(s, j))
        With(lens, fits) ==
            IF ~WordBoundary(s, i) \/ fits = {} THEN NoTextDate
            ELSE From(i + lens[Least(fits)])
        Try(lens) == With(lens, {n \in DOMAIN lens : TextDateTail(s, i + lens[n]) # 0})
    IN  Try(DayTokenLens(s, i))

\* index.js:156, 222  s.match(/\b(1er|premier|\d{1,2})\s+([a-zéûôîùàâç]+)\s+(\d{4})\b/i)
TextDateMatch(s) ==
    LET From(starts) == IF starts = {} THEN NoTextDate ELSE TextDateAt(s, Least(starts))
    IN  From({i \in DOMAIN s : TextDateAt(s, i).found})

\* index.js:157-163
TextDateToIso(m) ==
    LET Day(d) ==
            IF d = <<"1","e","r">> \/ d = <<"p","r","e","m","i","e","r">> THEN <<"1">> ELSE d
        Iso(y, mo, d) == IF mo # Undefined THEN IsoOf(y, mo, ParseInt(d)) ELSE NullStr
    IN  IF m.found
        THEN Iso(ParseInt(m.year), FR_MONTHS(ToLowerCase(m.month)), Day(ToLowerCase(m.day)))
        ELSE NullStr

\* index.js:140-165
parseFrenchDatePhrase(fr) ==
    LET Parse(s) ==
            IF IsIsoDate(s) THEN s
            ELSE IF IsNumericDate(s) THEN NumericDateToIso(s)
            ELSE TextDateToIso(TextDateMatch(s))
    IN  IF fr = <<>> THEN NullStr ELSE Parse(Trim(DropLe(normKeepAccents(fr), 1)))

-----------------------------------------------------------------------------
(* The Anchor Extractor, index.js:167-206 *)

NoIntent == "null"                  \* null where an intent is expected
NoTimeFilter == [f \in {} |-> <<>>] \* the object {}

NoMatch == [found |-> FALSE, g1 |-> <<>>, g2 |-> <<>>]

\* the position after an optional s (s?) followed by \b, from position e; 0: no match
OptionalS(t, e) ==
    IF LitAtCI(t, e, <<"s">>) /\ WordBoundary(t, e + 1) THEN e + 1
    ELSE IF WordBoundary(t, e) THEN e
    ELSE 0

\* (entr[ée]es?|sorties?|stock)\b at j: the position after the match, or 0
IntentWordEnd(t, j) ==
    IF /\ LitAtCI(t, j, <<"e","n","t","r">>) /\ j + 5 <= Len(t)
       /\ LowerChar(t[j + 4]) \in {EAcute, "e"} /\ LowerChar(t[j + 5]) = "e"
       /\ OptionalS(t, j + 6) # 0
    THEN OptionalS(t, j + 6)
    ELSE IF LitAtCI(t, j, <<"s","o","r","t","i","e">>) /\ OptionalS(t, j + 6) # 0
    THEN OptionalS(t, j + 6)
    ELSE IF LitAtCI(t, j, <<"s","t","o","c","k">>) /\ WordBoundary(t, j + 5)
    THEN j + 5
    ELSE 0

\* \bles\s+(entr[ée]es?|sorties?|stock)\b at i
IntentAnchorAt(t, i) ==
    /\ WordBoundary(t, i) /\ LitAtCI(t, i, <<"l","e","s">>)
    /\ SpaceRun(t, i + 3) >= 1
    /\ IntentWordEnd(t, AfterSpaces(t, i + 3)) # 0

\* index.js:173  t.match(/\bles\s+(entr[ée]es?|sorties?|stock)\b/i): g1 is the keyword
IntentAnchorMatch(t) ==
    LET Group(j) == [found |-> TRUE, g1 |-> Sub(t, j, IntentWordEnd(t, j)), g2 |-> <<>>]
        From(starts) ==
            IF starts = {} THEN NoMatch ELSE Group(AfterSpaces(t, Least(starts) + 3))
    IN  From({i \in DOMAIN t : IntentAnchorAt(t, i)})

\* \s*-?\s*(\d{1,5})\b at k: [end |-> the position after the match (0: none),
\* digits |-> where the digits start].  The digits are the whole run: a shorter
\* count ends between two digits, which is no \b.
GaineTail(t, k) ==
    LET Run(d, n) ==
            IF n >= 1 /\ n <= 5 /\ WordBoundary(t, d + n)
            THEN [end |-> d + n, digits |-> d]
            ELSE [end |-> 0, digits |-> 0]
        DigitsAt(d) == Run(d, DigitRun(t, d))
        Hyphen(h) == DigitsAt(AfterSpaces(t, IF LitAt(t, h, <<"-">>) THEN h + 1 ELSE h))
    IN  Hyphen(AfterSpaces(t, k))

\* the alternatives of a prefix group that match at j and let the tail match, as
\* indices into alts, which lists them in the order the engine tries them
PrefixChoices(t, j, alts) ==
    {n \in DOMAIN alts : LitAtCI(t, j, alts[n]) /\ GaineTail(t, j + Len(alts[n])).end # 0}

AnchorPrefixes == <<<<"g","s","b">>, <<"g","a","b">>, <<"g","l">>, <<"g","s">>>>

\* \bde\s+((?:gsb|gab|gl|gs)\s*-?\s*\d{1,5})\b at i
GaineAnchorAt(t, i) ==
    /\ WordBoundary(t, i) /\ LitAtCI(t, i, <<"d","e">>)
    /\ SpaceRun(t, i + 2) >= 1
    /\ PrefixChoices(t, AfterSpaces(t, i + 2), AnchorPrefixes) # {}

\* index.js:183  t.match(/\bde\s+((?:gsb|gab|gl|gs)\s*-?\s*\d{1,5})\b/i)
GaineAnchorMatch(t) ==
    LET Group(j, n) ==
            [found |-> TRUE,
             g1 |-> Sub(t, j, GaineTail(t, j + Len(AnchorPrefixes[n])).end),
             g2 |-> <<>>]
        GroupAt(j) == Group(j, Least(PrefixChoices(t, j, AnchorPrefixes)))
        From(starts) ==
            IF starts = {} THEN NoMatch ELSE GroupAt(AfterSpaces(t, Least(starts) + 2))
    IN  From({i \in DOMAIN t : GaineAnchorAt(t, i)})

NotSpaceOrHyphen(c) == ~(IsSpace(c) \/ c = "-")

\* index.js:185  .replace(/[\s\-]/g, '')
StripSpacesAndHyphens(s) == SelectSeq(s, NotSpaceOrHyphen)

\* (.+?)\b at p: the end of the shortest non-empty group that ends at a \b; 0: none
LazyToBoundary(t, p) ==
    LET First(ends) == IF ends = {} THEN 0 ELSE Least(ends)
    IN  IF p > Len(t) THEN 0
        ELSE First({e \in (p + 1)..(Len(t) + 1) : WordBoundary(t, e)})

\* \s+au\s+(.+?)\b at b (t is whitespace-normalized: a run of \s is one space)
RangeTailAt(t, b) ==
    LET Au(k) ==
            /\ LitAtCI(t, k, <<"a","u">>)
            /\ SpaceRun(t, k + 2) >= 1
            /\ LazyToBoundary(t, AfterSpaces(t, k + 2)) # 0
    IN  SpaceRun(t, b) >= 1 /\ Au(AfterSpaces(t, b))

\* the ends b of the first group (.+?) of the range pattern started at i
RangeFirstEnds(t, i) ==
    LET From(a) == {b \in (a + 1)..Len(t) : RangeTailAt(t, b)}
    IN  From(AfterSpaces(t, i + 2))

\* \bdu\s+(.+?)\s+au\s+(.+?)\b at i
RangeAnchorAt(t, i) ==
    /\ WordBoundary(t, i) /\ LitAtCI(t, i, <<"d","u">>)
    /\ SpaceRun(t, i + 2) >= 1
    /\ RangeFirstEnds(t, i) # {}

\* index.js:191  t.match(/\bdu\s+(.+?)\s+au\s+(.+?)\b/i)
RangeAnchorMatch(t) ==
    LET Second(p) == Sub(t, p, LazyToBoundary(t, p))
        Groups(a, b) ==
            [found |-> TRUE, g1 |-> Sub(t, a, b),
             g2 |-> Second(AfterSpaces(t, AfterSpaces(t, b) + 2))]
        At(i) == Groups(AfterSpaces(t, i + 2), Least(RangeFirstEnds(t, i)))
        From(starts) == IF starts = {} THEN NoMatch ELSE At(Least(starts))
    IN  From({i \in DOMAIN t : RangeAnchorAt(t, i)})

\* \ble\s+(.+?)$ at i
SingleAnchorAt(t, i) ==
    /\ WordBoundary(t, i) /\ LitAtCI(t, i, <<"l","e">>)
    /\ SpaceRun(t, i + 2) >= 1
    /\ AfterSpaces(t, i + 2) <= Len(t)

\* index.js:197  t.match(/\ble\s+(.+?)$/i)
SingleAnchorMatch(t) ==
    LET From(starts) ==
            IF starts = {} THEN NoMatch
            ELSE [found |-> TRUE,
                  g1 |-> Sub(t, AfterSpaces(t, Least(starts) + 2), Len(t) + 1),
                  g2 |-> <<>>]
    IN  From({i \in DOMAIN t : SingleAnchorAt(t, i)})

\* index.js:172-179
AnchorIntent(t) ==
    LET OfKeyword(kw) ==
            IF StartsWith(kw, <<"e","n","t","r">>) THEN "entrees"
            ELSE IF StartsWith(kw, <<"s","o","r","t">>) THEN "sorties"
            ELSE "stock"
        Of(intentM) == IF intentM.found THEN OfKeyword(ToLowerCase(intentM.g1)) ELSE NoIntent
    IN  Of(IntentAnchorMatch(t))

\* index.js:182-187
AnchorGaine(t) ==
    LET Of(gaineM) ==
            IF gaineM.found
            THEN [type |-> "prefix",
                  value |-> StripSpacesAndHyphens(ToLowerCase(gaineM.g1))]
            ELSE Null
    IN  Of(GaineAnchorMatch(t))

\* a variant that keeps the side of a range that resolved
RangeTime_HalfKept(d1, d2) ==
    IF d1 # NullStr /\ d2 # NullStr THEN [from |-> d1, to |-> d2]
    ELSE IF d1 # NullStr THEN [from |-> d1]
    ELSE IF d2 # NullStr THEN [to |-> d2]
    ELSE NoTimeFilter

\* index.js:195  if (d1 && d2) time = { from: d1, to: d2 }
RangeTime(d1, d2) ==
    IF d1 # NullStr /\ d2 # NullStr THEN [from |-> d1, to |-> d2] ELSE NoTimeFilter

\* index.js:200  if (d) time = { date: d }
SingleTime(d) == IF d # NullStr THEN [date |-> d] ELSE NoTimeFilter

\* index.js:189-202
AnchorTime(t) ==
    LET Of(rangeM, singleM) ==
            IF rangeM.found
            THEN RangeTime(parseFrenchDatePhrase(rangeM.g1),
                           parseFrenchDatePhrase(rangeM.g2))
            ELSE IF singleM.found THEN SingleTime(parseFrenchDatePhrase(singleM.g1))
            ELSE NoTimeFilter
    IN  Of(RangeAnchorMatch(t), SingleAnchorMatch(t))

\* a variant that returns whatever it found, one field alone included
AnchorResult_Partial(intent, gaine, time) ==
    IF intent # NoIntent \/ gaine # Null
    THEN [intent |-> intent, gaine |-> gaine, time |-> time]
    ELSE Null

\* index.js:204-205  if (intent && gaine) return { intent, gaine, time }; return null
AnchorResult(intent, gaine, time) ==
    IF intent # NoIntent /\ gaine # Null
    THEN [intent |-> intent, gaine |-> gaine, time |-> time]
    ELSE Null

\* index.js:168-206
extractByAnchors(text) ==
    LET In(t) == AnchorResult(AnchorIntent(t), AnchorGaine(t), AnchorTime(t))
    IN  In(normKeepAccents(text))

-----------------------------------------------------------------------------
(* The Fallback Extractor, index.js:208-240 *)

\* index.js:209-215
detectIntent(t) ==
    LET In(low) ==
            IF Includes(low, <<"e","n","t","r">>) THEN "entrees"
            ELSE IF Includes(low, <<"s","o","r","t">>) THEN "sorties"
            ELSE IF Includes(low, <<"s","t","o","c","k">>) THEN "stock"
            ELSE NoIntent
    IN  In(normKeepAccents(t))

\* (gs(?:b)?|gab|gl|gs): gs with its optional b taken first, then without
FallbackPrefixes == <<<<"g","s","b">>, <<"g","s">>, <<"g","a","b">>, <<"g","l">>, <<"g","s">>>>

\* \b(gs(?:b)?|gab|gl|gs)\s*-?\s*(\d{1,5})\b at i
GaineAt(t, i) == WordBoundary(t, i) /\ PrefixChoices(t, i, FallbackPrefixes) # {}

\* index.js:216-220
extractGaine(t) ==
    LET Value(i, k, tail) ==
            [type |-> "prefix",
             value |-> ToLowerCase(Sub(t, i, k)) \o Sub(t, tail.digits, tail.end)]
        With(i, n) ==
            Value(i, i + Len(FallbackPrefixes[n]), GaineTail(t, i + Len(FallbackPrefixes[n])))
        At(i) == With(i, Least(PrefixChoices(t, i, FallbackPrefixes)))
        From(starts) == IF starts = {} THEN Null ELSE At(Least(starts))
    IN  From({i \in DOMAIN t : GaineAt(t, i)})

\* \b(\d{4}-\d{2}-\d{2}|\d{1,2}[\/-]\d{1,2}[\/-]\d{2,4})\b at i: the position after
\* the match, or 0
DateTokenEnd(t, i) ==
    LET Numeric(fits) ==
            IF fits = {} THEN 0 ELSE Least({i + x[1] + x[2] + x[3] + 2 : x \in fits})
    IN  IF ~WordBoundary(t, i) THEN 0
        ELSE IF /\ AllDigits(t, i, 4) /\ LitAt(t, i + 4, <<"-">>) /\ AllDigits(t, i + 5, 2)
                /\ LitAt(t, i + 7, <<"-">>) /\ AllDigits(t, i + 8, 2)
                /\ WordBoundary(t, i + 10)
        THEN i + 10
        ELSE Numeric({x \in {1, 2} \X {1, 2} \X {2, 3, 4} :
                         /\ NumericDateAt(t, i, x[1], x[2], x[3])
                         /\ WordBoundary(t, i + x[1] + x[2] + x[3] + 2)})

\* index.js:227-230  (t.match(DATE_TOKEN_RE) || [])[0], NullStr when there is none
FirstDateToken(t) ==
    LET At(i) == Sub(t, i, DateTokenEnd(t, i))
        From(starts) == IF starts = {} THEN NullStr ELSE At(Least(starts))
    IN  From({i \in DOMAIN t : DateTokenEnd(t, i) # 0})

\* index.js:221-240
extractTime(t) ==
    LET Token(s) ==
            IF s = NullStr THEN NoTimeFilter
            ELSE IF IsNumericDate(s) THEN [date |-> NumericDateToIso(s)]
            ELSE [date |-> s]
        Phrase(singleM) ==
            IF singleM.found THEN parseFrenchDatePhrase(singleM.all) ELSE NullStr
        Of(d, s) == IF d # NullStr THEN [date |-> d] ELSE Token(s)
    IN  Of(Phrase(TextDateMatch(t)), FirstDateToken(t))

-----------------------------------------------------------------------------
(* The normalizers and the LLM Extractor, index.js:242-321 *)

\* index.js:243-248
normalizeGaineValue(v) ==
    LET Fits(s, p) ==
            /\ StartsWith(s, p)
            /\ Len(s) - Len(p) \in 1..5
            /\ AllDigits(s, Len(p) + 1, Len(s) - Len(p))
        Checked(s) ==
            IF \E n \in DOMAIN AnchorPrefixes : Fits(s, AnchorPrefixes[n])
            THEN s ELSE NullStr
    IN  IF v = <<>> THEN NullStr ELSE Checked(StripSpacesAndHyphens(ToLowerCase(v)))

\* index.js:249-256
normalizeIntent(i) ==
    LET Of(s) ==
            IF StartsWith(s, <<"e","n","t","r">>) THEN "entrees"
            ELSE IF StartsWith(s, <<"s","o","r","t">>) THEN "sorties"
            ELSE IF StartsWith(s, <<"s","t","o","c","k">>) THEN "stock"
            ELSE NoIntent
    IN  IF i = <<>> THEN NoIntent ELSE Of(ToLowerCase(i))

\* index.js:257-271  t has the fields date, single, from, to; <<>> is an absent one
normalizeTime(t) ==
    LET Of(single) ==
            IF single # <<>> THEN SingleTime(parseFrenchDatePhrase(single))
            ELSE IF t.from # <<>> /\ t.to # <<>>
            THEN RangeTime(parseFrenchDatePhrase(t.from), parseFrenchDatePhrase(t.to))
            ELSE NoTimeFilter
    IN  Of(IF t.date # <<>> THEN t.date ELSE t.single)

NoLlmTime == [date |-> <<>>, single |-> <<>>, from |-> <<>>, to |-> <<>>]

\* an answer of the chat model whose content parses to a JSON object
LlmObject(intent, gaine, time) ==
    [kind |-> "object", intent |-> intent, gaine |-> gaine, time |-> time]

\* an answer that gives no object: the call throws ("throw"), the content is
\* empty ("empty"), JSON.parse throws ("invalid"), or the content is the JSON null
\* what openai.chat.completions.create answers, index.js:289-303
LlmAnswers ==
    { [kind |-> k, intent |-> <<>>, gaine |-> <<>>, time |-> NoLlmTime] :
          k \in {"throw", "empty", "invalid", "null"} } \cup
    { LlmObject(<<"s","o","r","t","i","e","s">>, <<"G","S","B","-","1","1">>, [NoLlmTime EXCEPT !.date = <<"0","1","-","1","0","-","2","0","2","5">>]),
      LlmObject(<<"E","n","t","r",EAcute,"e","s">>, <<"g","a","b","2","2">>,
                [NoLlmTime EXCEPT !.from = <<"1","e","r"," ","m","a","r","s"," ","2","0","2","5">>, !.to = <<"1","5"," ","m","a","r","s"," ","2","0","2","5">>]),
      LlmObject(<<"s","t","o","c","k">>, <<"g","l"," ","9","0">>, NoLlmTime),
      LlmObject(<<"s","t","o","c","k">>, <<"g","l","9","0">>,
                [NoLlmTime EXCEPT !.single = <<"2","0","2","5","-","0","1","-","0","2">>, !.from = <<"2","0","2","5","-","0","1","-","0","1">>,
                                  !.to = <<"2","0","2","5","-","0","1","-","3","1">>]),
      LlmObject(<<"s","o","r","t","i","e","s">>, <<"g","a","b","2","2">>, [NoLlmTime EXCEPT !.from = <<"2","0","2","5","-","0","1","-","0","1">>]),
      LlmObject(<<>>, <<"g","s","b","1","1">>, NoLlmTime),
      LlmObject(<<"i","n","v","e","n","t","a","i","r","e">>, <<"g","s","b","1","1">>, NoLlmTime),
      LlmObject(<<"e","n","t","r","e","e","s">>, <<>>, [NoLlmTime EXCEPT !.date = <<"d","e","m","a","i","n">>]) }

\* a variant that returns the object as soon as the intent is there
LlmResult_IntentOnly(intent, gaineVal, time) ==
    IF intent # NoIntent
    THEN [intent |-> intent, gaine |-> [type |-> "prefix", value |-> gaineVal], time |-> time]
    ELSE Null

\* index.js:309-316  if (intent && gv) return { intent, gaine, time }; return null
LlmResult(intent, gaineVal, time) ==
    IF intent # NoIntent /\ gaineVal # NullStr
    THEN [intent |-> intent, gaine |-> [type |-> "prefix", value |-> gaineVal], time |-> time]
    ELSE Null

\* index.js:274-321  with the model's answer a
llmAnchorsParse(enabled, a) ==
    IF ~enabled THEN Null
    ELSE IF a.kind # "object" THEN Null
    ELSE LlmResult(normalizeIntent(a.intent), normalizeGaineValue(a.gaine),
                   normalizeTime(a.time))

-----------------------------------------------------------------------------
(* The Orchestrator: buildAudioPayload and handleAudioSmart, index.js:323-379 *)

Phone == <<"2","1","2","6","0","0","0","0","0","0","0","1">>       \* msg.from.split('@')[0]

\* index.js:342-345  the payload composed from the three fallback lookups
FallbackPayload(txt, phone) ==
    [mode |-> "audio_nlp", phone |-> phone, intent |-> detectIntent(txt),
     gaine |-> extractGaine(txt), time |-> extractTime(txt)]

\* index.js:332-338, 355  the payload made of one strategy's result
PayloadOf(found, phone) ==
    [mode |-> "audio_nlp", phone |-> phone, intent |-> found.intent,
     gaine |-> found.gaine, time |-> found.time]

\* a variant that fills an empty anchored time from the fallback lookup
buildAudioPayload_FallbackFillsTime(txt, phone) ==
    LET Given(anch) ==
            IF anch # Null
            THEN [PayloadOf(anch, phone) EXCEPT
                      !.time = IF anch.time = NoTimeFilter THEN extractTime(txt) ELSE anch.time]
            ELSE FallbackPayload(txt, phone)
    IN  Given(extractByAnchors(txt))

\* index.js:324-346
buildAudioPayload(txt, phone) ==
    LET Given(anch) ==
            IF anch # Null THEN PayloadOf(anch, phone) ELSE FallbackPayload(txt, phone)
    IN  Given(extractByAnchors(txt))

\* index.js:330-344  the extractors buildAudioPayload calls, in call order, given
\* what extractByAnchors returned
BuildCalls(anch) ==
    IF anch # Null
    THEN <<"extractByAnchors">>
    ELSE <<"extractByAnchors", "detectIntent", "extractGaine", "extractTime">>

\* index.js:351-359  the payload, given what llmAnchorsParse returned (Null: null,
\* or it was not called)
ResolvePayload(txt, phone, fromLlm) ==
    IF fromLlm # Null THEN PayloadOf(fromLlm, phone) ELSE buildAudioPayload(txt, phone)

\* a variant that looks at the gaine first
Decide_GaineFirst(p) ==
    IF p.gaine = Null THEN "gaine_missing"
    ELSE IF p.intent = NoIntent THEN "intent_missing"
    ELSE "post"

\* a variant that also wants a time filter before it posts
Decide_TimeRequired(p) ==
    IF p.intent = NoIntent THEN "intent_missing"
    ELSE IF p.gaine = Null \/ p.time = NoTimeFilter THEN "gaine_missing"
    ELSE "post"

\* index.js:361-368  what handleAudioSmart does with the payload
Decide(p) ==
    IF p.intent = NoIntent THEN "intent_missing"
    ELSE IF p.gaine = Null THEN "gaine_missing"
    ELSE "post"

\* how the router call ends
RouterAnswers == {"reply", "blank", "error"}

\* index.js:373-377  the reply, given how the router call ended
RouterReply(answer) ==
    CASE answer = "reply" -> "router_reply"
      [] answer = "blank" -> "no_clear_answer"
      [] answer = "error" -> "server_trouble"

\* the date phrases put around "au" in a range clause
RangePhrases == { <<"1","e","r"," ","m","a","r","s"," ","2","0","2","5">>, <<"1","5"," ","m","a","r","s"," ","2","0","2","5">>, <<"2","0","2","5","-","0","3","-","1","5">>, <<"d","e","m","a","i","n">> }

\* "les entrées de gab22 du <a> au <b>"
RangeUtterance(a, b) == <<"l","e","s"," ","e","n","t","r",EAcute,"e","s"," ","d","e"," ","g","a","b","2","2"," ","d","u"," ">> \o a \o <<" ","a","u"," ">> \o b

\* the transcripts handed to handleAudioSmart (index.js:419-424: never the empty one)
Utterances ==
    { RangeUtterance(a, b) : a, b \in RangePhrases } \cup
    { <<"l","e","s"," ","s","o","r","t","i","e","s"," ","d","e"," ","g","s","b","1","1"," ","l","e"," ","0","1","-","1","0","-","2","0","2","5">>,
      <<"s","t","o","c","k"," ","g","l","9","0">>,
      <<"l","e","s"," ","s","o","r","t","i","e","s">>,
      <<"g","s","b","1","1">>,
      <<"r","i","e","n"," ","d","u"," ","t","o","u","t">>,
      <<"l","e","s"," ","e","n","t","r","e","e","s"," ","d","e"," ","g","l","-","9","0">>,
      <<"d","e"," ","g","a","b","2","2"," ","l","e","s"," ","s","t","o","c","k","s">>,
      <<"l","e","s"," ","s","o","r","t","i","e","s"," ","d","u"," ","g","s","b","1","1"," ","a","u"," ","g","a","b","2","2">>,
      <<"d","o","n","n","e"," ","m","o","i"," ","l","e","s"," ","e","n","t","r",EAcute,"e"," ","d","e"," ","g","s","b"," ","-"," ","1","2"," ","l","e"," ","5"," ","m","a","i"," ","2","0","2","5">>,
      <<"s","o","r","t","i","e","s"," ","G","S","B","1","1"," ","1","/","2","-","2","0","2","5">>,
      <<"l","e","s"," ","s","o","r","t","i","e","s"," ","d","e"," ","g","s","b","1","1"," ","d","u"," ","x"," ","a","u"," ","y"," ","l","e"," ","0","1","-","1","0","-","2","0","2","5">>,
      <<"l","e","s"," ","s","o","r","t","i","e","s","x"," ","d","e"," ","g","s","b","1","1">>,
      <<"l","e","s"," ","e","n","t","r",EAcute,"e","s"," ","g","s","b","1","1">>,
      <<"l","e","s"," ","s","t","o","c","k"," ","d","e"," ","g","a","b","2","2"," ","l","e"," ","3","2"," ","m","a","r","s"," ","2","0","2","5">> }

\* index.js:361-371  with the payload p resolved: a prompt, or one post to the router
Conclude(p, posted) ==
    /\ payload' = p
    /\ IF Decide(p) = "post"
       THEN /\ hpc' = "router"
            /\ posts' = posted + 1
            /\ reply' = "none"
       ELSE /\ hpc' = "done"
            /\ posts' = posted
            /\ reply' = Decide(p)

\* index.js:349-353  handleAudioSmart(text, phone), flag enabled: the chat model is asked
HandleWithLlm ==
    /\ hpc = "idle"
    /\ USE_LLM_ANCHORS
    /\ \E u \in Utterances : transcript' = u
    /\ hpc' = "llm"
    /\ consulted' = <<"llmAnchorsParse">>
    /\ chat' = Null /\ llm' = Null /\ anchored' = Null /\ payload' = Null
    /\ posts' = 0 /\ reply' = "none"
    /\ UNCHANGED <<USE_LLM_ANCHORS, gateVars, calcVars, handlerVars>>

\* index.js:353-356, 361-371  the chat model's answer gave an object that passes the
\* normalizers: the payload is made of it alone
LlmFound(found) ==
    /\ found # Null
    /\ llm' = found
    /\ UNCHANGED <<consulted, anchored>>
    /\ \E p \in {ResolvePayload(transcript, Phone, found)} : Conclude(p, posts)

\* index.js:353, 359-371  llmAnchorsParse returned null: buildAudioPayload runs,
\* extractByAnchors returning anch
LlmNothing(found, anch) ==
    /\ found = Null
    /\ llm' = Null
    /\ anchored' = anch
    /\ consulted' = consulted \o BuildCalls(anch)
    /\ \E p \in {ResolvePayload(transcript, Phone, found)} : Conclude(p, posts)

\* index.js:353-371  the chat model has answered or failed: the rest of
\* handleAudioSmart up to the router call
LlmAnswer ==
    /\ hpc = "llm"
    /\ \E a \in LlmAnswers :
          /\ chat' = a
          /\ \E found \in {llmAnchorsParse(USE_LLM_ANCHORS, a)} :
                \/ LlmFound(found)
                \/ \E anch \in {extractByAnchors(transcript)} : LlmNothing(found, anch)
    /\ UNCHANGED <<USE_LLM_ANCHORS, transcript, gateVars, calcVars, handlerVars>>

\* index.js:349-371  handleAudioSmart(text, phone), flag disabled: up to the router call
HandleLocal ==
    /\ hpc = "idle"
    /\ ~USE_LLM_ANCHORS
    /\ \E u \in Utterances :
          /\ transcript' = u
          /\ \E anch \in {extractByAnchors(u)} :
                /\ anchored' = anch
                /\ consulted' = BuildCalls(anch)
          /\ \E p \in {ResolvePayload(u, Phone, Null)} : Conclude(p, 0)
    /\ chat' = Null /\ llm' = Null
    /\ UNCHANGED <<USE_LLM_ANCHORS, gateVars, calcVars, handlerVars>>

\* index.js:371-378  the router answers, or the post fails
RouterAnswer ==
    /\ hpc = "router"
    /\ \E answer \in RouterAnswers : reply' = RouterReply(answer)
    /\ hpc' = "done"
    /\ UNCHANGED <<USE_LLM_ANCHORS, transcript, chat, llm, anchored, payload, consulted,
                   posts, gateVars, calcVars, handlerVars>>

\* index.js:424  handleAudioSmart has returned its reply; its locals are gone
Deliver ==
    /\ hpc = "done"
    /\ hpc' = "idle"
    /\ transcript' = <<>> /\ chat' = Null /\ llm' = Null /\ anchored' = Null
    /\ payload' = Null
    /\ consulted' = <<>> /\ posts' = 0 /\ reply' = "none"
    /\ UNCHANGED <<USE_LLM_ANCHORS, gateVars, calcVars, handlerVars>>

\* index.js:27  the flag is read from the environment once, at start
AudioInit ==
    /\ USE_LLM_ANCHORS \in BOOLEAN
    /\ hpc = "idle" /\ transcript = <<>> /\ chat = Null /\ llm = Null
    /\ anchored = Null /\ payload = Null
    /\ consulted = <<>> /\ posts = 0 /\ reply = "none"
    /\ GateInit /\ CalcIdle /\ processedMsgIds = {} /\ handlers = <<>>

AudioNext == HandleWithLlm \/ LlmAnswer \/ HandleLocal \/ RouterAnswer \/ Deliver

AudioSpec == AudioInit /\ [][AudioNext]_vars

-----------------------------------------------------------------------------
(* parseFrenchDatePhrase (index.js:140-165) and the backoff formula         *)
(* (index.js:100), each called on its own on one argument.                  *)

\* numeric date tokens: day, separator, month, separator, year
NumericTokens ==
    { d \o s1 \o m \o s2 \o y :
        d \in {<<"1">>, <<"3","1">>}, s1 \in {<<"/">>, <<"-">>},
        m \in {<<"2">>, <<"1","2">>}, s2 \in {<<"/">>, <<"-">>},
        y \in {<<"2","5">>, <<"2","0","2">>, <<"2","0","2","5">>} }

\* the phrases handed to parseFrenchDatePhrase
DatePhrases ==
    NumericTokens \cup
    { <<"2","0","2","5","-","0","3","-","1","5">>,
      <<"1","e","r"," ","m","a","r","s"," ","2","0","2","5">>,
      <<"p","r","e","m","i","e","r"," ","a","o",UCirc,"t"," ","2","0","2","5">>,
      <<"1","5"," ","M","a","r","s"," ","2","0","2","5">>,
      <<"3"," ","f","o","o"," ","2","0","2","5">>,
      <<"d","e","m","a","i","n">>,
      <<"1","5">>,
      <<>> }

\* the calls made: parseFrenchDatePhrase(phrase), or the backoff of index.js:100 with
\* attempt and Math.floor(Math.random() * 300) = jitter
Calls ==
    { [fn |-> "parseFrenchDatePhrase", phrase |-> ph] : ph \in DatePhrases } \cup
    { [fn |-> "backoff", attempt |-> a, jitter |-> j] :
        a \in 0..MaxAttempt, j \in 0..(JITTER_SPAN - 1) }

\* index.js:140-165  parseFrenchDatePhrase returns
ResolveDate ==
    /\ ~out.done
    /\ arg.fn = "parseFrenchDatePhrase"
    /\ out' = [done |-> TRUE, value |-> parseFrenchDatePhrase(arg.phrase)]
    /\ UNCHANGED <<arg, gateVars, audioVars, handlerVars>>

\* index.js:100  const backoff = ...
ComputeBackoff ==
    /\ ~out.done
    /\ arg.fn = "backoff"
    /\ out' = [done |-> TRUE, value |-> Backoff(arg.attempt, arg.jitter)]
    /\ UNCHANGED <<arg, gateVars, audioVars, handlerVars>>

CalcInit == arg \in Calls /\ out = [done |-> FALSE] /\ GateInit /\ AudioIdle /\ processedMsgIds = {} /\ handlers = <<>>

CalcNext == ResolveDate \/ ComputeBackoff

CalcSpec == CalcInit /\ [][CalcNext]_vars

-----------------------------------------------------------------------------
(* The 'message' handler, index.js:389-472.  A handler is a record:          *)
(*   mid, fromMe, audio, body   the message: msg.id?._serialized, msg.fromMe, *)
(*            isAudioLike (index.js:405), whether msg.body has text          *)
(*   pc       where it is suspended: "chat" (index.js:398), "download" (410), *)
(*            "convert" (417), "slot" (418, in waitForTranscribeSlot),       *)
(*            "service" (418, awaiting the transcription), "llm" (353),      *)
(*            "router" (371), "route" (454), "send" (a reply is going out),  *)
(*            or ended: "dropped" (returned at 391 or 394), "done"           *)
(*   heard, transcript   transcribeAudio has returned, and what              *)
(*   chat     what the chat model answered (Null: not asked)                 *)
(*   payload  the payload of handleAudioSmart (Null: none)                   *)
(*   reply    the text going out or sent ("none": none)                      *)
(*   guarded  the pending send is inside try { } catch (_) { }               *)
(*   transcribed, posts, replied   history: transcribeAudio calls, axios.post *)
(*            calls, replies delivered                                       *)
(* The wait inside transcribeAudio is kept as its two steps, the slot grant  *)
(* and the answer; the await of msg.react (index.js:409), whose failure is   *)
(* swallowed, is taken together with downloadMedia.                          *)

NoId == "undefined"     \* msg.id?._serialized when the event carries no id

\* the events delivered: voice notes and texts, a repeated id, no id, an own message
Messages ==
    { [mid |-> "m1", fromMe |-> FALSE, audio |-> TRUE, body |-> FALSE],
      [mid |-> "m2", fromMe |-> FALSE, audio |-> TRUE, body |-> FALSE],
      [mid |-> "m2", fromMe |-> FALSE, audio |-> FALSE, body |-> TRUE],
      [mid |-> NoId, fromMe |-> FALSE, audio |-> TRUE, body |-> FALSE],
      [mid |-> "m1", fromMe |-> TRUE, audio |-> FALSE, body |-> TRUE] }

\* a variant that does not record the id
Admit_Forgotten(ids, mid) == ids

\* index.js:395  processedMsgIds.add(mid)
Admit(ids, mid) == ids \cup {mid}

\* a variant that lets the empty transcript through
TranscriptMissing_Never(t) == FALSE

\* index.js:419  !transcript
TranscriptMissing(t) == t = <<>>

\* a variant that takes the transcript heard last by any handler
TranscriptFor_Latest(hs, i) ==
    hs[CHOOSE k \in DOMAIN hs :
          /\ hs[k].heard
          /\ \A j \in DOMAIN hs : hs[j].heard => j <= k].transcript

\* index.js:418, 424  const transcript, the argument of handleAudioSmart
TranscriptFor(hs, i) == hs[i].transcript

\* a reply goes out: msg.reply inside try { } catch (_) { } (guarded), or
\* client.sendMessage
Sending(h, text, guarded) ==
    [h EXCEPT !.pc = "send", !.reply = text, !.guarded = guarded]

\* index.js:451-458  the text flow up to its await
TextFlow(h) ==
    IF ~h.body THEN [h EXCEPT !.pc = "done"]
    ELSE [h EXCEPT !.pc = "route", !.posts = @ + 1]

\* index.js:350-371, 424-437  handleAudioSmart with the strategies' result found
\* (Null: the chat model gave nothing, or was not asked) up to its next await
Resolve(hs, i, found) ==
    LET Given(p) ==
            IF Decide(p) = "post"
            THEN [hs[i] EXCEPT !.payload = p, !.pc = "router", !.posts = @ + 1]
            ELSE Sending([hs[i] EXCEPT !.payload = p], Decide(p), FALSE)
    IN  Given(ResolvePayload(TranscriptFor(hs, i), Phone, found))

\* index.js:389-398  a 'message' event: the callback runs up to its first await
MessageEvent ==
    /\ Len(handlers) < MaxMessages
    /\ \E m \in Messages :
          LET HandlerAt(at) ==
                  [mid |-> m.mid, fromMe |-> m.fromMe, audio |-> m.audio, body |-> m.body,
                   pc |-> at, heard |-> FALSE, transcript |-> <<>>, chat |-> Null,
                   payload |-> Null, reply |-> "none", guarded |-> FALSE,
                   transcribed |-> 0, posts |-> 0, replied |-> 0]
          IN  IF m.fromMe \/ m.mid = NoId \/ m.mid \in processedMsgIds
              THEN /\ handlers' = Append(handlers, HandlerAt("dropped"))
                   /\ UNCHANGED processedMsgIds
              ELSE /\ handlers' = Append(handlers, HandlerAt("chat"))
                   /\ processedMsgIds' = Admit(processedMsgIds, m.mid)
    /\ UNCHANGED <<gateVars, audioVars, calcVars>>

\* index.js:398-410, 451-458, 468-470  msg.getChat() settles
ChatKnown(i) ==
    /\ handlers[i].pc = "chat"
    /\ \E chatIs \in {"private", "group", "throws"} :
          handlers' = [handlers EXCEPT ![i] =
              CASE chatIs = "group" -> [@ EXCEPT !.pc = "done"]
                [] chatIs = "throws" -> Sending(@, "unexpected_error", TRUE)
                [] chatIs = "private" ->
                      IF @.audio THEN [@ EXCEPT !.pc = "download"] ELSE TextFlow(@)]
    /\ UNCHANGED <<processedMsgIds, gateVars, audioVars, calcVars>>

\* index.js:410-417, 451-458, 468-470  msg.downloadMedia() settles
Downloaded(i) ==
    /\ handlers[i].pc = "download"
    /\ \E media \in {"data", "nothing", "throws"} :
          handlers' = [handlers EXCEPT ![i] =
              CASE media = "data" -> [@ EXCEPT !.pc = "convert"]
                [] media = "nothing" -> TextFlow(@)
                [] media = "throws" -> Sending(@, "unexpected_error", TRUE)]
    /\ UNCHANGED <<processedMsgIds, gateVars, audioVars, calcVars>>

\* index.js:417-418, 442-444  ffmpegConvert settles; transcribeAudio is called
Converted(i) ==
    /\ handlers[i].pc = "convert"
    /\ \E ok \in BOOLEAN :
          handlers' = [handlers EXCEPT ![i] =
              IF ok THEN [@ EXCEPT !.pc = "slot", !.transcribed = @ + 1]
              ELSE Sending(@, "audio_error", TRUE)]
    /\ UNCHANGED <<processedMsgIds, gateVars, audioVars, calcVars>>

\* index.js:78, 86  the handler's transcribeAudio is granted its slot
SlotGranted(i) ==
    /\ handlers[i].pc = "slot"
    /\ LAST_TRANSCRIBE_AT' = now
    /\ handlers' = [handlers EXCEPT ![i].pc = "service"]
    /\ UNCHANGED <<now, inv, rejected, firstGrantAt, prevGrantAt, processedMsgIds,
                   audioVars, calcVars>>

\* index.js:418-424, 349-371  transcribeAudio returns t, '' or a transcript; with
\* a transcript, handleAudioSmart runs up to its first await
Transcribed(i) ==
    /\ handlers[i].pc = "service"
    /\ \E t \in { <<>>,
                  <<"s","t","o","c","k"," ","g","l","9","0">>,
                  <<"l","e","s"," ","s","o","r","t","i","e","s">> } :
          \E hs \in {[handlers EXCEPT ![i].heard = TRUE, ![i].transcript = t]} :
             handlers' = [hs EXCEPT ![i] =
                 IF TranscriptMissing(t) THEN Sending(@, "transcription_saturated", TRUE)
                 ELSE IF USE_LLM_ANCHORS THEN [@ EXCEPT !.pc = "llm"]
                 ELSE Resolve(hs, i, Null)]
    /\ UNCHANGED <<processedMsgIds, gateVars, audioVars, calcVars>>

\* index.js:353-371  the chat model has answered or failed
LlmAnswered(i) ==
    /\ handlers[i].pc = "llm"
    /\ \E a \in { [kind |-> "throw", intent |-> <<>>, gaine |-> <<>>, time |-> NoLlmTime],
                  LlmObject(<<"s","o","r","t","i","e","s">>, <<"g","a","b","2","2">>,
                            NoLlmTime) } :
          \E hs \in {[handlers EXCEPT ![i].chat = a]} :
             handlers' = [hs EXCEPT ![i] = Resolve(hs, i, llmAnchorsParse(USE_LLM_ANCHORS, a))]
    /\ UNCHANGED <<processedMsgIds, gateVars, audioVars, calcVars>>

\* index.js:371-378, 424-437  the router answers handleAudioSmart, or the post fails
RouterAnswered(i) ==
    /\ handlers[i].pc = "router"
    /\ \E answer \in RouterAnswers :
          handlers' = [handlers EXCEPT ![i] = Sending(@, RouterReply(answer), FALSE)]
    /\ UNCHANGED <<processedMsgIds, gateVars, audioVars, calcVars>>

\* index.js:454-466  the router answers the text flow, or the post fails
RouteAnswered(i) ==
    /\ handlers[i].pc = "route"
    /\ \E answer \in RouterAnswers :
          handlers' = [handlers EXCEPT ![i] =
              CASE answer = "reply" -> Sending(@, "router_reply", FALSE)
                [] answer = "blank" -> Sending(@, "ok", FALSE)
                [] answer = "error" -> Sending(@, "server_trouble", TRUE)]
    /\ UNCHANGED <<processedMsgIds, gateVars, audioVars, calcVars>>

\* index.js:420, 437, 442-445, 462, 466-470  the pending send settles
Sent(i) ==
    /\ handlers[i].pc = "send"
    /\ \E ok \in BOOLEAN :
          handlers' = [handlers EXCEPT ![i] =
              IF ok THEN [@ EXCEPT !.pc = "done", !.replied = @ + 1]
              ELSE IF @.guarded THEN [@ EXCEPT !.pc = "done"]
              ELSE Sending(@, IF @.heard THEN "audio_error" ELSE "unexpected_error", TRUE)]
    /\ UNCHANGED <<processedMsgIds, gateVars, audioVars, calcVars>>

HandlerNext ==
    \/ MessageEvent
    \/ \E i \in DOMAIN handlers : ChatKnown(i)
    \/ \E i \in DOMAIN handlers : Downloaded(i)
    \/ \E i \in DOMAIN handlers : Converted(i)
    \/ \E i \in DOMAIN handlers : SlotGranted(i)
    \/ \E i \in DOMAIN handlers : Transcribed(i)
    \/ \E i \in DOMAIN handlers : LlmAnswered(i)
    \/ \E i \in DOMAIN handlers : RouterAnswered(i)
    \/ \E i \in DOMAIN handlers : RouteAnswered(i)
    \/ \E i \in DOMAIN handlers : Sent(i)
    \/ Tick

HandlerSpec == AudioInit /\ [][HandlerNext]_vars

-----------------------------------------------------------------------------
(* Properties of the extraction pipeline, checked under AudioSpec *)

\* handleAudioSmart has resolved its payload
Resolved == hpc \in {"router", "done"}

\* buildAudioPayload ran for this transcript
AnchorsRan == \E n \in DOMAIN consulted : consulted[n] = "extractByAnchors"

\* the three fields a strategy gives
FieldsOf(p) == [intent |-> p.intent, gaine |-> p.gaine, time |-> p.time]

NotTheLlm(name) == name # "llmAnchorsParse"

\* the extractors consulted after the LLM step
LocalCalls == SelectSeq(consulted, NotTheLlm)

\* C2: a range clause `du A au B` whose two phrases both resolve gives
\* time = {from: resolve(A), to: resolve(B)}; when either does not resolve, time
\* has neither from nor to.
C2_RangeClauseGivesFromTo ==
    \A a, b \in RangePhrases :
        (AnchorsRan /\ transcript = RangeUtterance(a, b)) =>
            /\ anchored # Null
            /\ IF parseFrenchDatePhrase(a) # NullStr /\ parseFrenchDatePhrase(b) # NullStr
               THEN anchored.time = [from |-> parseFrenchDatePhrase(a),
                                     to |-> parseFrenchDatePhrase(b)]
               ELSE DOMAIN anchored.time \cap {"from", "to"} = {}

\* C7: the strategies are consulted in the order LLM (only when enabled), anchors,
\* fallback; the first that yields a result ends the consultation, and the
\* payload's intent, gaine and time are that one strategy's.
C7_FirstStrategyWins ==
    Resolved =>
        /\ USE_LLM_ANCHORS <=> (consulted # <<>> /\ consulted[1] = "llmAnchorsParse")
        /\ Len(consulted) - Len(LocalCalls) \in {0, 1}
        /\ llm # Null =>
              /\ LocalCalls = <<>>
              /\ FieldsOf(payload) = llm
        /\ (llm = Null /\ anchored # Null) =>
              /\ LocalCalls = <<"extractByAnchors">>
              /\ FieldsOf(payload) = anchored
        /\ (llm = Null /\ anchored = Null) =>
              /\ LocalCalls = <<"extractByAnchors", "detectIntent", "extractGaine",
                                "extractTime">>
              /\ FieldsOf(payload) = [intent |-> detectIntent(transcript),
                                      gaine |-> extractGaine(transcript),
                                      time |-> extractTime(transcript)]

\* the LLM and the anchors both gave nothing, and the fallback built the payload
C7_Witness ==
    /\ hpc = "done" /\ USE_LLM_ANCHORS
    /\ Len(consulted) = 5
    /\ payload.intent = "stock" /\ payload.gaine # Null

\* C8: a payload without intent is answered with the intent prompt, one with an
\* intent but no gaine with the gaine prompt; the router is not called in either
\* case, and with both absent the intent prompt is the one returned.
C8_MissingFieldPrompts ==
    Resolved =>
        /\ payload.intent = NoIntent =>
              hpc = "done" /\ reply = "intent_missing" /\ posts = 0
        /\ (payload.intent # NoIntent /\ payload.gaine = Null) =>
              hpc = "done" /\ reply = "gaine_missing" /\ posts = 0

\* neither field was found, and the intent prompt is the reply
C8_Witness ==
    /\ hpc = "done" /\ payload.intent = NoIntent /\ payload.gaine = Null
    /\ reply = "intent_missing" /\ posts = 0

\* C9: a payload with intent and gaine is posted to the router exactly once,
\* whatever its time is, the empty object included.
C9_CompletePayloadPostedOnce ==
    (Resolved /\ payload.intent # NoIntent /\ payload.gaine # Null) =>
        /\ posts = 1
        /\ reply \notin {"intent_missing", "gaine_missing"}
        /\ hpc = "done" => reply \in {RouterReply(answer) : answer \in RouterAnswers}

\* a payload with no time filter went to the router, which replied
C9_Witness ==
    /\ hpc = "done" /\ payload.intent # NoIntent /\ payload.gaine # Null
    /\ payload.time = NoTimeFilter
    /\ posts = 1 /\ reply = "router_reply"

\* the anchors of the transcript, as the patterns of index.js:173, 183 find them
HasIntentAnchor == IntentAnchorMatch(normKeepAccents(transcript)).found
HasGaineAnchor == GaineAnchorMatch(normKeepAccents(transcript)).found

\* the transcript has a range clause or a `le` clause
HasTimeClause ==
    \/ RangeAnchorMatch(normKeepAccents(transcript)).found
    \/ SingleAnchorMatch(normKeepAccents(transcript)).found

\* C10: extractByAnchors returns null or an object with both intent and gaine:
\* one anchor alone gives null, and both anchors without a resolvable time give
\* the object with time = {} (a time, when given, holds resolved dates only).
C10_AnchorsAllOrNothing ==
    AnchorsRan =>
        /\ anchored # Null =>
              /\ DOMAIN anchored = {"intent", "gaine", "time"}
              /\ anchored.intent \in {"entrees", "sorties", "stock"}
              /\ anchored.gaine # Null /\ anchored.gaine.value # <<>>
        /\ (HasIntentAnchor /\ HasGaineAnchor) <=> anchored # Null
        /\ (anchored # Null /\ ~HasTimeClause) => anchored.time = NoTimeFilter
        /\ anchored # Null =>
              /\ DOMAIN anchored.time \in {{}, {"date"}, {"from", "to"}}
              /\ \A f \in DOMAIN anchored.time : anchored.time[f] # NullStr

\* the intent anchor alone was found, and extractByAnchors returned null
C10_Witness ==
    /\ AnchorsRan /\ HasIntentAnchor /\ ~HasGaineAnchor
    /\ anchored = Null

\* C12: with the flag enabled, llmAnchorsParse gives a query only when the
\* normalized intent and the normalized identifier are both present; a failed
\* call, an empty answer, invalid JSON and a missing or non-conforming intent or
\* identifier give null, and handleAudioSmart then goes on with the anchors and
\* the fallback as it does with the flag disabled.
C12_LlmNullFallsThrough ==
    (Resolved /\ USE_LLM_ANCHORS) =>
        /\ chat # Null
        /\ llm # Null <=>
              /\ chat.kind = "object"
              /\ normalizeIntent(chat.intent) # NoIntent
              /\ normalizeGaineValue(chat.gaine) # NullStr
        /\ llm # Null =>
              /\ llm.intent = normalizeIntent(chat.intent)
              /\ llm.gaine = [type |-> "prefix", value |-> normalizeGaineValue(chat.gaine)]
        /\ llm = Null =>
              /\ anchored = extractByAnchors(transcript)
              /\ LocalCalls = BuildCalls(anchored)
              /\ payload = buildAudioPayload(transcript, Phone)
              /\ posts = (IF Decide(payload) = "post" THEN 1 ELSE 0)

\* the answer was an object with an intent that does not conform, and the anchors
\* gave the payload
C12_Witness ==
    /\ Resolved /\ USE_LLM_ANCHORS
    /\ chat # Null /\ chat.kind = "object" /\ chat.gaine # <<>>
    /\ llm = Null /\ anchored # Null /\ FieldsOf(payload) = anchored

\* a time filter is {}, {date} or {from, to}, each value a resolved date
TimeShape(t) ==
    /\ DOMAIN t \in {{}, {"date"}, {"from", "to"}}
    /\ \A f \in DOMAIN t : t[f] # NullStr

\* C14: the time of every payload, whichever strategy produced it
\* (extractByAnchors, extractTime, normalizeTime), is exactly one of {}, {date},
\* {from, to}: never date with from or to, never one of from and to alone.
C14_TimeIsOneShape ==
    /\ payload # Null => TimeShape(payload.time)
    /\ anchored # Null => TimeShape(anchored.time)
    /\ llm # Null => TimeShape(llm.time)
    /\ (chat # Null /\ chat.kind = "object") => TimeShape(normalizeTime(chat.time))
    /\ hpc # "idle" => TimeShape(extractTime(transcript))

\* the chat model gave a single date together with a range, and the payload has
\* the date alone
C14_Witness ==
    /\ Resolved /\ llm # Null
    /\ chat.time.single # <<>> /\ chat.time.from # <<>> /\ chat.time.to # <<>>
    /\ DOMAIN payload.time = {"date"}

-----------------------------------------------------------------------------
(* Properties of single calls, checked under CalcSpec *)

\* a numeric token whose two separators differ
MixedSeparators(ph) ==
    \E x \in {1, 2} \X {1, 2} \X {2, 3, 4} :
        /\ Len(ph) = x[1] + x[2] + x[3] + 2
        /\ NumericDateAt(ph, 1, x[1], x[2], x[3])
        /\ ph[x[1] + 1] # ph[x[1] + x[2] + 2]

\* C15: parseFrenchDatePhrase returns null for a numeric token whose two
\* separators differ, and its result is always null or a YYYY-MM-DD string.
C15_ConsistentSeparators ==
    (out.done /\ arg.fn = "parseFrenchDatePhrase") =>
        /\ MixedSeparators(arg.phrase) => out.value = NullStr
        /\ out.value = NullStr \/ IsIsoDate(out.value)

\* C18: the backoff at a given attempt is min(2000 * 2^attempt, 8000) plus a
\* jitter in 0..299: 2000, 4000, then 8000 for every later attempt, and at most
\* 8299 in all.
C18_BackoffDoublesToCap ==
    (out.done /\ arg.fn = "backoff") =>
        /\ out.value - arg.jitter =
              (IF arg.attempt = 0 THEN 2000 ELSE IF arg.attempt = 1 THEN 4000 ELSE 8000)
        /\ arg.jitter \in 0..299
        /\ out.value <= 8299

\* the cap applies: at attempt 3 the doubling would give 16000
C18_Witness ==
    /\ out.done /\ arg.fn = "backoff"
    /\ arg.attempt = 3 /\ arg.jitter = 299 /\ out.value = 8299

-----------------------------------------------------------------------------
(* Properties of the 'message' handler, checked under HandlerSpec *)

\* C13: a handler whose transcribeAudio returned the empty transcript sends the
\* transcription-unavailable reply, inside a try/catch, and ends: it never asks
\* the chat model, builds no payload and never posts to the router; handlers of
\* later messages run as usual.
C13_EmptyTranscriptStops ==
    \A i \in DOMAIN handlers :
        (handlers[i].heard /\ handlers[i].transcript = <<>>) =>
            /\ handlers[i].pc \in {"send", "done"}
            /\ handlers[i].reply = "transcription_saturated"
            /\ handlers[i].guarded
            /\ handlers[i].chat = Null
            /\ handlers[i].payload = Null
            /\ handlers[i].posts = 0

\* a handler ended on the empty transcript with its reply delivered, and the
\* handler of a later message got a transcript, a payload and its reply out
C13_Witness ==
    \E i, j \in DOMAIN handlers :
        /\ i < j
        /\ handlers[i].heard /\ handlers[i].transcript = <<>>
        /\ handlers[i].pc = "done" /\ handlers[i].replied = 1
        /\ handlers[j].heard /\ handlers[j].transcript # <<>>
        /\ handlers[j].payload # Null
        /\ handlers[j].pc = "done" /\ handlers[j].replied = 1

\* handler i takes a step of handleAudioSmart: its start on a transcript, the
\* chat model's answer, or the router's answer
ExtractionStep(i) ==
    /\ i \in DOMAIN handlers
    /\ handlers'[i] # handlers[i]
    /\ \/ handlers[i].pc \in {"llm", "router"}
       \/ handlers[i].pc = "service" /\ handlers'[i].transcript # <<>>

\* C19: a step of handleAudioSmart leaves LAST_TRANSCRIBE_AT, processedMsgIds and
\* every other handler as they were, and the payload it builds is the one that
\* its own transcript and its own chat answer give when handled alone, whatever
\* other handlers did in between.
C19_ExtractionSharesNothing ==
    [][ \A i \in DOMAIN handlers :
            ExtractionStep(i) =>
                /\ UNCHANGED <<gateVars, processedMsgIds>>
                /\ \A j \in DOMAIN handlers : j # i => handlers'[j] = handlers[j]
                /\ handlers'[i].payload # Null =>
                      handlers'[i].payload =
                          ResolvePayload(handlers'[i].transcript, Phone,
                                         llmAnchorsParse(USE_LLM_ANCHORS, handlers'[i].chat))
      ]_vars

\* two handlers hold payloads of different transcripts, the earlier message's
\* payload built after the later message's transcript was heard, and
\* LAST_TRANSCRIBE_AT has moved since the first grant
C19_Witness ==
    \E i, j \in DOMAIN handlers :
        /\ i < j
        /\ handlers[i].payload # Null /\ handlers[j].payload # Null
        /\ handlers[i].transcript # handlers[j].transcript
        /\ handlers[i].payload # handlers[j].payload
        /\ LAST_TRANSCRIBE_AT > StartTime

\* C20: at most one handler per message id gets past the processedMsgIds check,
\* also when the same id arrives again while the first handler is still
\* suspended; a handler that was turned away, and any handler of an event
\* without id, transcribes nothing, posts nothing and sends nothing; a handler
\* calls transcribeAudio at most once, posts at most once and delivers at most
\* one reply.
C20_EachIdHandledOnce ==
    /\ \A i, j \in DOMAIN handlers :
          (handlers[i].mid = handlers[j].mid /\ handlers[i].pc # "dropped"
              /\ handlers[j].pc # "dropped") => i = j
    /\ \A i \in DOMAIN handlers :
          /\ handlers[i].mid = NoId => handlers[i].pc = "dropped"
          /\ handlers[i].pc # "dropped" => handlers[i].mid \in processedMsgIds
          /\ handlers[i].pc = "dropped" =>
                (handlers[i].transcribed = 0 /\ handlers[i].posts = 0 /\ handlers[i].replied = 0)
          /\ handlers[i].transcribed <= 1
          /\ handlers[i].posts <= 1
          /\ handlers[i].replied <= 1

\* the same id arrived again while its first handler was awaiting the
\* transcription, and the second event was turned away
C20_Witness ==
    \E i, j \in DOMAIN handlers :
        /\ i < j
        /\ handlers[i].mid = handlers[j].mid
        /\ ~handlers[j].fromMe
        /\ handlers[i].pc \in {"slot", "service"}
        /\ handlers[j].pc = "dropped"

====
